---- MODULE Spec2Model ----
(***************************************************************************)
(* Model of the test harness of the Azure AI Foundry starter kit.          *)
(*                                                                         *)
(* Two scripts share the harness: the starter script (index.ts, variant    *)
(* "index") and the image-generation script (index_with_flux.ts, variant   *)
(* "flux").  A run is: module-level configuration, the pre-flight check,   *)
(* construction of the provider clients, main() with its sequential test   *)
(* loop over runTest, the summary, and the trailing main().catch.          *)
(***************************************************************************)
EXTENDS Integers, Sequences, FiniteSets, TLC

VARIABLES
    variant,     \* which script is run: "index" or "flux"
    endpoint,    \* AZURE_ENDPOINT as read from the environment ("" = unset or empty)
    apiKey,      \* AZURE_API_KEY as read from the environment ("" = unset or empty)
    modelAlt,    \* MODEL_ALT (process.env.AZURE_MODEL_ALT || "")
    clients,     \* the provider/client objects constructed so far
    pc,          \* position of the process
    i,           \* number of iterations of the for-of loop started so far
    results,     \* main's results array
    invoked,     \* names of the tests whose action fn() has been invoked, in order
    inFlight,    \* number of invoked actions that have not settled yet
    rt,          \* state of the promise of the latest runTest call
    ret,         \* value that promise resolved to
    thrown,      \* value main() rejected with (NoErr when it has not rejected)
    remote,      \* names of the tests on whose behalf a remote request was issued
    stdout,      \* lines written with console.log / process.stdout
    stderr,      \* lines written with console.error
    exitCode,    \* process exit code
    exitCalled,  \* TRUE once process.exit has been called
    tests,       \* main's tests array (names of the registered tests)
    settled,     \* what the body of each invoked action ended with (NoErr: it completed)
    delivered,   \* fragments the text stream of the pending action has delivered
    response,    \* latest response of the image endpoint
    files,       \* names of the files written with fs.writeFileSync
    toolPc,      \* position of the generateText call of testToolCalling
    steps,       \* model steps that call has completed
    calls,       \* tool calls the model requested in the step under way
    replies      \* what getWeather.execute returned for those calls

\* State of the harness that the steps of the tool loop leave alone.
runVars == <<variant, endpoint, apiKey, modelAlt, clients, pc, i, results, invoked,
             inFlight, rt, ret, thrown, remote, stdout, stderr, exitCode, exitCalled,
             tests, settled, delivered, response, files>>

\* State of the tool loop that the steps of the harness leave alone.
toolVars == <<toolPc, steps, calls, replies>>

vars == <<runVars, toolVars>>

----------------------------------------------------------------------------
(* Configuration                                                           *)

Variants == {"index", "flux"}

\* Values process.env may hold for the two required variables.
EndpointValues == {"", "https://example.services.ai.azure.com/models"}
ApiKeyValues == {"", "secret"}

\* Values of process.env.AZURE_MODEL_ALT || "".
ModelAltValues == {"", "Kimi-K2.5"}

\* Variation: the check written with && in place of ||.
ConfigMissingAnd(e, k) == e = "" /\ k = ""

\* if (!AZURE_ENDPOINT || !AZURE_API_KEY)

ConfigMissing(e, k) == e = "" \/ k = ""

\* Module-level constants each script declares.
Declared(v) ==
    IF v = "index"
    THEN {"AZURE_ENDPOINT", "AZURE_API_KEY", "MODEL_GPT", "MODEL_ALT"}
    ELSE {"AZURE_ENDPOINT", "AZURE_API_KEY", "MODEL_GPT", "MODEL_KIMI",
          "MODEL_FLUX", "FLUX_ENDPOINT"}

\* Clients constructed at module level after the pre-flight check.
ClientsOf(v) ==
    IF v = "index"
    THEN {"azureFoundry", "azureViaOpenAI", "azureOpenAICompat"}
    ELSE {"azureFoundry", "azureViaOpenAI", "azureOpenAICompat", "fluxClient"}

----------------------------------------------------------------------------
(* Registered tests                                                        *)

TestsIndex ==
    << "1. Generate Text (Foundry Provider)",
       "2. Stream Text (Foundry Provider)",
       "3. Multi-turn Conversation",
       "4. Tool Calling (@ai-sdk/openai)",
       "5. OpenAI-Compatible Provider",
       "6. Alternative Model" >>

TestsFlux ==
    << "1. Endpoint Validation",
       "2. GPT-5.2 Text Generation",
       "3. Kimi K2.5 Text Generation",
       "4. Multi-turn Conversation (GPT-5.2)",
       "5. Tool Calling (GPT-5.2)",
       "6. FLUX.2-pro Image Generation",
       "7. Streaming (Kimi K2.5)",
       "8. Cross-Provider Compatibility" >>

Tests(v) == IF v = "index" THEN TestsIndex ELSE TestsFlux

AltTest == "6. Alternative Model"
FluxTest == "6. FLUX.2-pro Image Generation"

\* The tests whose action drains a text stream (testStreamText, testStreamingKimi).
StreamTest(v) ==
    IF v = "index" THEN "2. Stream Text (Foundry Provider)" ELSE "7. Streaming (Kimi K2.5)"

----------------------------------------------------------------------------
(* Thrown values and output lines                                          *)

NoErr == [kind |-> "none", message |-> "", cause |-> FALSE]

ErrorValue(m, c) == [kind |-> "Error", message |-> m, cause |-> c]
StringValue(m) == [kind |-> "String", message |-> m, cause |-> FALSE]
Nullish == [kind |-> "Nullish", message |-> "", cause |-> FALSE]

\* Values a collaborator call may reject with: an Error, an Error carrying a
\* cause, a bare string, and null/undefined.
RejectValues ==
    {ErrorValue("boom", FALSE), ErrorValue("boom", TRUE), StringValue("boom"), Nullish}

\* Reading a property of null or undefined throws a TypeError.
PropertyReadThrows(e) == e.kind = "Nullish"

TypeErrorValue == ErrorValue("Cannot read properties of null", FALSE)

\* err.message: the message of an Error, undefined (here "") for a string.
MessageOf(e) == IF e.kind = "Error" THEN e.message ELSE ""

\* String(err) for the values that reach a template literal.
ToText(e) ==
    IF e.kind = "String" THEN e.message
    ELSE IF e.message = "" THEN "Error" ELSE e.message

\* err.message || err
MessageOrSelf(e) == IF MessageOf(e) # "" THEN MessageOf(e) ELSE ToText(e)

Line(tag, name, text) == [tag |-> tag, name |-> name, text |-> text, p |-> 0, t |-> 0]

TallyLine(p, t) == [tag |-> "tally", name |-> "", text |-> "tests passed", p |-> p, t |-> t]

\* divider(title): a rule, the title, a rule.
divider(title) ==
    << Line("rule", "", ""), Line("title", title, ""), Line("rule", "", "") >>

----------------------------------------------------------------------------
(* Test actions                                                            *)

\* Variation: testAlternativeModel without its early return.
NeverSkips(v, name, alt) == FALSE

\* testAlternativeModel: if (!MODEL_ALT) { log "Skipped"; return; }

ActionSkips(v, name, alt) == v = "index" /\ name = AltTest /\ alt = ""

\* testStreamText / testStreamingKimi
ActionStreams(v, name) == name = StreamTest(v)

\* testFluxImageGeneration wraps its body in try/catch, logs and rethrows;
\* the other actions have no handler of their own.
ActionCatches(v, name) == v = "flux" /\ name = FluxTest

\* What the action writes to stdout before its first suspension.
ActionPrologue(v, name, alt) ==
    IF ActionSkips(v, name, alt)
    THEN << Line("skipped", name, "AZURE_MODEL_ALT not set in .env") >>
    ELSE IF ActionStreams(v, name)
    THEN << Line("stream-label", name, "Streamed: ") >>
    ELSE IF ActionCatches(v, name)
    THEN << Line("log", name, "Testing FLUX.2-pro image generation..."),
            Line("log", name, "Endpoint:"), Line("log", name, "Model:") >>
    ELSE << >>

\* Requests the action issues before its first suspension.
ActionRequests(v, name, alt) ==
    IF ActionSkips(v, name, alt) THEN << >> ELSE << name >>

\* Variation: the skip branch throws instead of returning.
SkipRaises(v, name, alt) ==
    IF ActionSkips(v, name, alt) THEN {ErrorValue("AZURE_MODEL_ALT not set", FALSE)}
    ELSE {NoErr} \cup RejectValues

\* The ways an invoked action can settle: NoErr is fulfilment, anything else
\* the value the collaborator rejected with.  A skipped action only returns.
Settlements(v, name, alt) ==
    IF ActionSkips(v, name, alt) THEN {NoErr} ELSE {NoErr} \cup RejectValues

\* Payloads of b64_json: "" stands for an absent or empty payload.
Payloads == {"", "aGVsbG8="}

MaxData == 2

\* Responses of fluxClient.images.generate: data may be missing, or a list.
NoResponse == [hasData |-> FALSE, data |-> << >>]

ImageResponses ==
    {NoResponse} \cup
    {[hasData |-> TRUE, data |-> d] : d \in UNION {[1..n -> Payloads] : n \in 0..MaxData}}

\* The responses a fulfilled request of the action can carry.
Responses(v, name, s) ==
    IF ActionCatches(v, name) /\ s = NoErr THEN ImageResponses ELSE {NoResponse}

\* Variation: the payload check left out, any first entry is written.
AnyFirstEntry(r) == r.hasData /\ Len(r.data) > 0

\* result.data && result.data.length > 0, then if (image_base64)
HasImage(r) == r.hasData /\ Len(r.data) > 0 /\ r.data[1] # ""

\* The value thrown inside the body of the action (NoErr: none): what the
\* awaited call rejected with, or the Error the body throws on a response
\* without an image.
ActionThrows(v, name, s, r) ==
    IF s # NoErr THEN s
    ELSE IF ~ActionCatches(v, name) THEN NoErr
    ELSE IF HasImage(r) THEN NoErr
    ELSE IF r.hasData /\ Len(r.data) > 0
    THEN ErrorValue("No base64 image data received", FALSE)
    ELSE ErrorValue("No image data received from FLUX.2-pro", FALSE)

\* fs.writeFileSync(outputPath, image_bytes)
ActionWrites(v, name, s, r) ==
    IF ActionCatches(v, name) /\ s = NoErr /\ HasImage(r)
    THEN << "flux_output.png" >>
    ELSE << >>

\* What the action writes to stdout once its awaited work has fulfilled: the
\* newline closing the streamed text, the three lines about the saved image,
\* or the report of the response.
ActionEpilogue(v, name, alt, t) ==
    IF t # NoErr \/ ActionSkips(v, name, alt) THEN << >>
    ELSE IF ActionStreams(v, name) THEN << Line("newline", name, "") >>
    ELSE IF ActionCatches(v, name)
    THEN << Line("log", name, "Image generated successfully and saved to: flux_output.png"),
            Line("log", name, "Prompt:"), Line("log", name, "Image size:") >>
    ELSE << Line("report", name, "") >>

\* Variation: the catch block of the image test rethrows without logging.
CatchSilently(v, name, e) == << >>

\* Lines the action's own catch block writes to stderr.
ActionCatchLines(v, name, e) ==
    IF ActionCatches(v, name) /\ e # NoErr /\ ~PropertyReadThrows(e)
    THEN << Line("flux-failed", name, MessageOf(e)) >>
    ELSE << >>

\* The value the action's promise rejects with (NoErr: it fulfils).
ActionRaises(v, name, e) ==
    IF ActionCatches(v, name) /\ e # NoErr /\ PropertyReadThrows(e)
    THEN TypeErrorValue
    ELSE e

----------------------------------------------------------------------------
(* runTest                                                                 *)

\* The catch block of runTest reads err.message and err.cause.
RunTestRejects(e) == e # NoErr /\ PropertyReadThrows(e)

\* Lines runTest writes to stdout after the action has settled.
RunTestOut(name, e) ==
    IF e = NoErr THEN << Line("PASSED", name, "") >> ELSE << >>

\* Variation: the catch block also logs the error object itself.
RunTestErrTwice(name, e) ==
    IF e = NoErr THEN << >>
    ELSE IF PropertyReadThrows(e) THEN << Line("FAILED", name, "") >>
    ELSE << Line("FAILED", name, ""), Line("message", name, MessageOrSelf(e)),
            Line("error", name, MessageOrSelf(e)) >>

\* Lines runTest writes to stderr after the action has settled.
RunTestErr(name, e) ==
    IF e = NoErr THEN << >>
    ELSE IF PropertyReadThrows(e) THEN << Line("FAILED", name, "") >>
    ELSE << Line("FAILED", name, ""), Line("message", name, MessageOrSelf(e)) >>
         \o (IF e.cause THEN << Line("cause", name, "") >> ELSE << >>)

\* Variation: runTest returns true from its catch block too.
RunTestReturnsTrue(e) == TRUE

\* The value runTest resolves to when it does not reject.
RunTestReturn(e) == e = NoErr

----------------------------------------------------------------------------
(* main                                                                    *)

\* Identifier each line of main's banner interpolates ("" for none).
Banner(v) ==
    IF v = "index"
    THEN << "", "AZURE_ENDPOINT", "MODEL_GPT", "MODEL_ALT" >>
    ELSE << "", "", "AZURE_ENDPOINT", "FLUX_ENDPOINT", "MODEL_GPd", "MODEL_KIMI",
            "MODEL_FLUX" >>

Resolves(v, id) == id = "" \/ id \in Declared(v)

\* Index of the first banner line that reads an undeclared identifier, 0 if none.
FirstUnresolved(v) ==
    LET bad == {k \in 1..Len(Banner(v)) : ~Resolves(v, Banner(v)[k])}
    IN IF bad = {} THEN 0 ELSE CHOOSE k \in bad : \A m \in bad : k <= m

BannerPrinted(v) ==
    LET n == IF FirstUnresolved(v) = 0 THEN Len(Banner(v)) ELSE FirstUnresolved(v) - 1
    IN [k \in 1..n |-> Line("banner", "", Banner(v)[k])]

\* The ReferenceError "<id> is not defined", identified by its identifier.
ReferenceErrorValue(id) == ErrorValue(id, FALSE)

\* Variation: runTest called without await, the loop goes on while the
\* action is pending.
NoAwait(p) == p \in {"loop", "await"}

\* await runTest(...): the loop starts its next iteration only when main is
\* not suspended.
LoopReady(p) == p = "loop"

\* Variation: results.unshift in place of results.push.
Unshift(rs, name, passed) == << [name |-> name, passed |-> passed] >> \o rs

\* results.push({ name, passed })
PushResult(rs, name, passed) == Append(rs, [name |-> name, passed |-> passed])

\* Variation: the count taken without the filter.
CountAll(rs) == Len(rs)

\* results.filter((r) => r.passed).length
CountPassed(rs) == Cardinality({k \in 1..Len(rs) : rs[k].passed})

\* r.passed ? pass glyph : fail glyph
Glyph(passed) == IF passed THEN "pass" ELSE "fail"

SummaryRows(rs) == [k \in 1..Len(rs) |-> Line(Glyph(rs[k].passed), rs[k].name, "")]

\* The closing message of the image-generation script.
Closing(v, rs) ==
    IF v = "flux"
    THEN << Line("closing", "",
                 IF CountPassed(rs) = Len(rs) THEN "AR tests passed" ELSE "Some tests failed") >>
    ELSE << >>

SummaryTitle(v) == IF v = "index" THEN "Summary" ELSE "Test Summary"

SummaryLines(v, rs) ==
    divider(SummaryTitle(v)) \o SummaryRows(rs)
        \o << TallyLine(CountPassed(rs), Len(rs)) >> \o Closing(v, rs)

\* Variation: no .catch on main(), an unhandled rejection ends the process
\* with status 1.
Unhandled(code) == 1

\* main().catch(console.error): the rejection is handled, the exit code stays.
TopLevelCatch(code) == code

----------------------------------------------------------------------------
(* The run                                                                 *)

Fragments == {"a", "b"}

\* Variation: the fragment is consumed without being written.
ChunkDropped(out, name, f) == out

\* process.stdout.write(chunk)
ChunkWritten(out, name, f) == Append(out, Line("chunk", name, f))

MaxFragments == 2

\* The tool loop before generateText has been called.
ToolIdle ==
    /\ toolPc = "idle"
    /\ steps = 0
    /\ calls = << >>
    /\ replies = << >>

Init ==
    /\ variant \in Variants
    /\ endpoint \in EndpointValues
    /\ apiKey \in ApiKeyValues
    /\ modelAlt \in ModelAltValues
    /\ clients = {}
    /\ pc = "preflight"
    /\ i = 0
    /\ results = << >>
    /\ invoked = << >>
    /\ inFlight = 0
    /\ rt = "none"
    /\ ret = FALSE
    /\ thrown = NoErr
    /\ remote = << >>
    /\ stdout = << >>
    /\ stderr = << >>
    /\ exitCode = 0
    /\ exitCalled = FALSE
    /\ tests = << >>
    /\ settled = << >>
    /\ delivered = << >>
    /\ response = NoResponse
    /\ files = << >>
    /\ ToolIdle

\* The module-level check finds a required variable missing: console.error
\* and process.exit(1).
PreflightFail ==
    /\ pc = "preflight"
    /\ ConfigMissing(endpoint, apiKey)
    /\ stderr' = Append(stderr, Line("missing-config", "", ""))
    /\ exitCode' = 1
    /\ exitCalled' = TRUE
    /\ pc' = "exited"
    /\ UNCHANGED <<variant, endpoint, apiKey, modelAlt, clients, i, results, invoked,
                   inFlight, rt, ret, thrown, remote, stdout, tests, settled,
                   delivered, response, files>>
    /\ UNCHANGED toolVars

\* The check passes and the module goes on to construct its clients.
PreflightPass ==
    /\ pc = "preflight"
    /\ ~ConfigMissing(endpoint, apiKey)
    /\ pc' = "construct"
    /\ UNCHANGED <<variant, endpoint, apiKey, modelAlt, clients, i, results, invoked,
                   inFlight, rt, ret, thrown, remote, stdout, stderr, exitCode,
                   exitCalled, tests, settled, delivered, response, files>>
    /\ UNCHANGED toolVars

\* Variation: the clients are not constructed at module level.
ConstructNothing ==
    /\ pc = "construct"
    /\ pc' = "main"
    /\ UNCHANGED <<variant, endpoint, apiKey, modelAlt, clients, i, results, invoked,
                   inFlight, rt, ret, thrown, remote, stdout, stderr, exitCode,
                   exitCalled, tests, settled, delivered, response, files>>
    /\ UNCHANGED toolVars

\* createAzure, createOpenAI, createOpenAICompatible (and new OpenAI).
ConstructClients ==
    /\ pc = "construct"
    /\ clients' = ClientsOf(variant)
    /\ pc' = "main"
    /\ UNCHANGED <<variant, endpoint, apiKey, modelAlt, i, results, invoked, inFlight,
                   rt, ret, thrown, remote, stdout, stderr, exitCode, exitCalled,
                   tests, settled, delivered, response, files>>
    /\ UNCHANGED toolVars

\* main() is called: it prints its banner and declares results and tests.
\* A banner line that reads an undeclared identifier throws a
\* ReferenceError, which rejects main's promise.
MainStart ==
    /\ pc = "main"
    /\ stdout' = stdout \o BannerPrinted(variant)
    /\ IF FirstUnresolved(variant) = 0
       THEN /\ pc' = "loop"
            /\ thrown' = thrown
            /\ tests' = Tests(variant)
       ELSE /\ pc' = "rejected"
            /\ thrown' = ReferenceErrorValue(Banner(variant)[FirstUnresolved(variant)])
            /\ tests' = tests
    /\ results' = << >>
    /\ i' = 0
    /\ UNCHANGED <<variant, endpoint, apiKey, modelAlt, clients, invoked, inFlight, rt,
                   ret, remote, stderr, exitCode, exitCalled, settled, delivered,
                   response, files>>
    /\ UNCHANGED toolVars

\* One iteration of the loop starts: runTest(name, fn) prints the divider
\* and calls fn(); the action runs up to its first suspension.
RunTestInvoke ==
    /\ LoopReady(pc)
    /\ i < Len(tests)
    /\ LET name == tests[i + 1] IN
         /\ i' = i + 1
         /\ stdout' = stdout \o divider(name) \o ActionPrologue(variant, name, modelAlt)
         /\ invoked' = Append(invoked, name)
         /\ remote' = remote \o ActionRequests(variant, name, modelAlt)
    /\ inFlight' = inFlight + 1
    /\ rt' = "pending"
    /\ pc' = "await"
    /\ delivered' = << >>
    /\ UNCHANGED <<variant, endpoint, apiKey, modelAlt, clients, results, ret, thrown,
                   stderr, exitCode, exitCalled, tests, settled, response, files>>
    /\ UNCHANGED toolVars

\* The text stream of the pending streaming test delivers a fragment and the
\* body of its for-await loop writes it: process.stdout.write(chunk).
StreamChunk ==
    /\ pc = "await"
    /\ inFlight > 0
    /\ ActionStreams(variant, tests[i])
    /\ Len(delivered) < MaxFragments
    /\ \E f \in Fragments :
         /\ delivered' = Append(delivered, f)
         /\ stdout' = ChunkWritten(stdout, tests[i], f)
    /\ UNCHANGED <<variant, endpoint, apiKey, modelAlt, clients, pc, i, results, invoked,
                   inFlight, rt, ret, thrown, remote, stderr, exitCode, exitCalled,
                   tests, settled, response, files>>
    /\ UNCHANGED toolVars

\* The pending action settles and runTest resumes: it prints PASSED and
\* returns true, or its catch block prints the failure and returns false.
\* When the catch block itself throws, runTest rejects and so does main.
ActionSettle ==
    /\ pc = "await"
    /\ inFlight > 0
    /\ \E s \in Settlements(variant, tests[i], modelAlt) :
       \E r \in Responses(variant, tests[i], s) :
         LET name == tests[i]
             t == ActionThrows(variant, name, s, r)
             e == ActionRaises(variant, name, t)
         IN /\ stdout' = stdout \o ActionEpilogue(variant, name, modelAlt, t)
                                \o RunTestOut(name, e)
            /\ stderr' = stderr \o ActionCatchLines(variant, name, t) \o RunTestErr(name, e)
            /\ files' = files \o ActionWrites(variant, name, s, r)
            /\ response' = r
            /\ settled' = Append(settled, t)
            /\ IF RunTestRejects(e)
               THEN /\ rt' = "rejected"
                    /\ ret' = ret
                    /\ thrown' = TypeErrorValue
                    /\ pc' = "rejected"
               ELSE /\ rt' = "resolved"
                    /\ ret' = RunTestReturn(e)
                    /\ thrown' = thrown
                    /\ pc' = "push"
    /\ inFlight' = inFlight - 1
    /\ UNCHANGED <<variant, endpoint, apiKey, modelAlt, clients, i, results, invoked,
                   remote, exitCode, exitCalled, tests, delivered>>
    /\ UNCHANGED toolVars

\* main resumes from await runTest(...) and pushes the result.
Push ==
    /\ pc = "push"
    /\ results' = PushResult(results, tests[i], ret)
    /\ pc' = "loop"
    /\ UNCHANGED <<variant, endpoint, apiKey, modelAlt, clients, i, invoked, inFlight,
                   rt, ret, thrown, remote, stdout, stderr, exitCode, exitCalled,
                   tests, settled, delivered, response, files>>
    /\ UNCHANGED toolVars

\* The loop is over: main prints the summary and returns.
Summary ==
    /\ pc = "loop"
    /\ i = Len(tests)
    /\ stdout' = stdout \o SummaryLines(variant, results)
    /\ pc' = "done"
    /\ UNCHANGED <<variant, endpoint, apiKey, modelAlt, clients, i, results, invoked,
                   inFlight, rt, ret, thrown, remote, stderr, exitCode, exitCalled,
                   tests, settled, delivered, response, files>>
    /\ UNCHANGED toolVars

\* main's promise rejected: .catch(console.error) prints the error.
MainCatch ==
    /\ pc = "rejected"
    /\ stderr' = Append(stderr, Line("uncaught", "", MessageOrSelf(thrown)))
    /\ exitCode' = TopLevelCatch(exitCode)
    /\ pc' = "done"
    /\ UNCHANGED <<variant, endpoint, apiKey, modelAlt, clients, i, results, invoked,
                   inFlight, rt, ret, thrown, remote, stdout, exitCalled, tests,
                   settled, delivered, response, files>>
    /\ UNCHANGED toolVars

Next ==
    \/ PreflightFail
    \/ PreflightPass
    \/ ConstructClients
    \/ MainStart
    \/ RunTestInvoke
    \/ StreamChunk
    \/ ActionSettle
    \/ Push
    \/ Summary
    \/ MainCatch

Spec == Init /\ [][Next]_vars

----------------------------------------------------------------------------
(* The harness applied to a registered list                                *)

MaxTests == 2

\* Names runTest is applied to: two plain tests, whose actions only fulfil
\* or reject, and the script's skipping and image tests.
HarnessNames(v) ==
    {"A", "B"} \cup (IF v = "index" THEN {AltTest} ELSE {FluxTest})

TestLists(v) == UNION {[1..n -> HarnessNames(v)] : n \in 0..MaxTests}

\* main at the head of its loop, with tests one of the given lists of
\* registered tests.
LoopHead(lists) ==
    /\ variant \in Variants
    /\ endpoint \in EndpointValues \ {""}
    /\ apiKey \in ApiKeyValues \ {""}
    /\ modelAlt \in ModelAltValues
    /\ clients = ClientsOf(variant)
    /\ pc = "loop"
    /\ i = 0
    /\ results = << >>
    /\ invoked = << >>
    /\ inFlight = 0
    /\ rt = "none"
    /\ ret = FALSE
    /\ thrown = NoErr
    /\ remote = << >>
    /\ stdout = << >>
    /\ stderr = << >>
    /\ exitCode = 0
    /\ exitCalled = FALSE
    /\ tests \in lists
    /\ settled = << >>
    /\ delivered = << >>
    /\ response = NoResponse
    /\ files = << >>
    /\ ToolIdle

InitHarness == LoopHead(TestLists(variant))

NextHarness ==
    \/ RunTestInvoke
    \/ ActionSettle
    \/ Push
    \/ Summary
    \/ MainCatch

HarnessSpec == InitHarness /\ [][NextHarness]_vars

----------------------------------------------------------------------------
(* The harness applied to a streaming test                                 *)

\* Lists in which the script's streaming test runs alone, before and after
\* a plain test.
StreamLists(v) ==
    { << StreamTest(v) >>, << StreamTest(v), "A" >>, << "A", StreamTest(v) >> }

InitStream == LoopHead(StreamLists(variant))

NextStream ==
    \/ RunTestInvoke
    \/ StreamChunk
    \/ ActionSettle
    \/ Push
    \/ Summary
    \/ MainCatch

StreamSpec == InitStream /\ [][NextStream]_vars

----------------------------------------------------------------------------
(* Properties                                                              *)

Names(rs) == [k \in 1..Len(rs) |-> rs[k].name]

Lines(out, tag) == {k \in 1..Len(out) : out[k].tag = tag}

ConfigPresent == endpoint # "" /\ apiKey # ""

\* main returned normally, having printed the summary.
FullRun == pc = "done" /\ thrown = NoErr

\* C1: Isolation.  Whenever main has settled in a run with the required
\* configuration present, every registered action has been invoked and the
\* result sequence has one entry per registered test, whichever actions raised.
C1_Isolation ==
    (ConfigPresent /\ pc = "done") =>
        /\ invoked = Tests(variant)
        /\ Len(results) = Len(Tests(variant))

\* C2: the promise returned by runTest never rejects, whatever value the
\* action raised (an Error, an Error with a cause, a string, null/undefined).
C2_RunTestNeverRejects == rt # "rejected"

\* C3: Pre-flight gate.  With the endpoint or the credential unset or empty
\* the process never gets past the check: no client is constructed, main is
\* not entered, no action is invoked and no request is issued; once the check
\* has run the diagnostic is on the error stream and process.exit was called
\* with a non-zero status.
C3_PreflightGate ==
    (endpoint = "" \/ apiKey = "") =>
        /\ pc \in {"preflight", "exited"}
        /\ clients = {}
        /\ invoked = << >>
        /\ remote = << >>
        /\ stdout = << >>
        /\ pc = "exited" =>
             /\ exitCalled
             /\ exitCode # 0
             /\ stderr = << Line("missing-config", "", "") >>

\* C3 witness: the check has terminated a run in which only the credential
\* is missing.
C3_Witness == pc = "exited" /\ endpoint # "" /\ apiKey = ""

\* C4: in the image-generation script, with the required configuration
\* present, a run that has ended has invoked the eight registered tests once
\* each in the documented order, holds eight results and has printed the
\* summary.
C4_FluxRunsEightTests ==
    (variant = "flux" /\ ConfigPresent /\ pc = "done") =>
        /\ invoked = TestsFlux
        /\ Len(results) = Len(TestsFlux)
        /\ Lines(stdout, "tally") # {}

\* C5: Order preservation.  The names of the result sequence are always the
\* names of the registered tests, position by position, and after a full run
\* they are all of them.
C5_OrderPreserved ==
    /\ Len(results) <= Len(Tests(variant))
    /\ \A k \in 1..Len(results) : results[k].name = Tests(variant)[k]
    /\ FullRun => Names(results) = Tests(variant)

\* C5 witness: a full run with both a passing and a failing test.
C5_Witness ==
    /\ FullRun
    /\ \E j, k \in 1..Len(results) : results[j].passed /\ ~results[k].passed

\* C6: Summary arithmetic.  The printed tally has as passed-count the number
\* of result entries with passed = true, which is the number of runTest calls
\* that printed PASSED and returned true, and as total the length of the
\* result sequence, which is the number of registered tests.
C6_SummaryArithmetic ==
    \A k \in Lines(stdout, "tally") :
        /\ stdout[k].p = Cardinality({j \in 1..Len(results) : results[j].passed = TRUE})
        /\ stdout[k].p = Cardinality(Lines(stdout, "PASSED"))
        /\ stdout[k].t = Len(results)
        /\ stdout[k].t = Len(Tests(variant))

\* C6 witness: a tally was printed for a run with some, but not all, tests passed.
C6_Witness ==
    \E k \in Lines(stdout, "tally") : 0 < stdout[k].p /\ stdout[k].p < stdout[k].t

\* C7: Sequential execution.  At most one action is in flight, and an action
\* has been invoked only when the results of all the tests before it have
\* been appended.
C7_Sequential ==
    /\ inFlight \in {0, 1}
    /\ Len(invoked) <= Len(results) + 1
    /\ inFlight = 1 => Len(results) = Len(invoked) - 1

\* C7 witness: an action is in flight after an earlier test failed.
C7_Witness == inFlight = 1 /\ Len(results) >= 2 /\ ~results[1].passed

\* C8: Skip semantics.  With AZURE_MODEL_ALT unset or empty no request is
\* issued for the Alternative Model test and its result is not passed = false.
C8_SkipSemantics ==
    modelAlt = "" =>
        /\ \A k \in 1..Len(remote) : remote[k] # AltTest
        /\ \A k \in 1..Len(results) : results[k].name = AltTest => results[k].passed # FALSE

\* C8 witness: the Alternative Model test has run and been recorded without
\* the model configured, after requests of the other tests.
C8_Witness ==
    /\ modelAlt = ""
    /\ Len(remote) > 0
    /\ \E k \in 1..Len(results) : results[k].name = AltTest

\* C9 as stated: a skipped test is neither counted in the passed-count of the
\* summary nor shown with the pass glyph.
C9_SkipNeitherPassNorFail ==
    modelAlt = "" =>
        /\ \A k \in Lines(stdout, "pass") : stdout[k].name # AltTest
        /\ \A k \in Lines(stdout, "tally") :
             stdout[k].p = Cardinality({j \in 1..Len(results) :
                                          results[j].passed /\ results[j].name # AltTest})

\* C9 amended: a skipped test is recorded as a pass.  Its result entry has
\* passed = true, the summary shows it with the pass glyph and never with the
\* fail glyph, and the passed-count counts it.
C9_SkipRecordedAsPass ==
    modelAlt = "" =>
        /\ \A k \in 1..Len(results) : results[k].name = AltTest => results[k].passed = TRUE
        /\ \A k \in Lines(stdout, "fail") : stdout[k].name # AltTest
        /\ \A k \in Lines(stdout, "tally") :
             /\ \E r \in Lines(stdout, "pass") : stdout[r].name = AltTest
             /\ stdout[k].p = 1 + Cardinality({j \in 1..Len(results) :
                                                 results[j].passed /\ results[j].name # AltTest})

\* C9 witness: the summary of a run that skipped the Alternative Model test.
C9_Witness ==
    /\ modelAlt = ""
    /\ FullRun
    /\ \E k \in Lines(stdout, "skipped") : stdout[k].name = AltTest

\* C10: once the pre-flight check has passed, the exit code is never set to
\* a non-zero value and process.exit is never called, whatever the tests did.
C10_ExitStatusIndependent ==
    ConfigPresent => (exitCode = 0 /\ ~exitCalled)

\* C10 witness: a run has ended in which tests failed, one of them so that
\* main itself rejected.
C10_Witness ==
    /\ pc = "done"
    /\ thrown # NoErr
    /\ \E k \in 1..Len(results) : ~results[k].passed

----------------------------------------------------------------------------
(* The tool loop of testToolCalling                                        *)

\* Strings the tool reads character by character are tuples of characters.
Uppers == << "A", "B", "C", "D", "E", "F", "G", "H", "I", "J", "K", "L", "M",
             "N", "O", "P", "Q", "R", "S", "T", "U", "V", "W", "X", "Y", "Z" >>

Lowers == << "a", "b", "c", "d", "e", "f", "g", "h", "i", "j", "k", "l", "m",
             "n", "o", "p", "q", "r", "s", "t", "u", "v", "w", "x", "y", "z" >>

LowerChar(c) ==
    IF \E k \in 1..Len(Uppers) : Uppers[k] = c
    THEN Lowers[CHOOSE k \in 1..Len(Uppers) : Uppers[k] = c]
    ELSE c

\* location.toLowerCase()
ToLowerCase(str) == [k \in 1..Len(str) |-> LowerChar(str[k])]

SanFrancisco == << "s", "a", "n", " ", "f", "r", "a", "n", "c", "i", "s", "c", "o" >>
Tokyo == << "t", "o", "k", "y", "o" >>
London == << "l", "o", "n", "d", "o", "n" >>

\* Locations the model may ask for: z.string() admits any string.
Locations ==
    { << "S", "a", "n", " ", "F", "r", "a", "n", "c", "i", "s", "c", "o" >>,
      << "T", "O", "K", "Y", "O" >>,
      London,
      << "P", "a", "r", "i", "s" >>,
      << "c", "o", "n", "s", "t", "r", "u", "c", "t", "o", "r" >> }

\* z.enum(["celsius", "fahrenheit"]).optional(): "" is an absent unit.
Units == {"celsius", "fahrenheit", ""}

Number(n) == [type |-> "number", num |-> n]
Undefined == [type |-> "undefined", num |-> 0]
NaN == [type |-> "NaN", num |-> 0]

\* Properties every object literal inherits from Object.prototype under an
\* all-lower-case name: constructor (a function) and __proto__ (an object).
Inherited(key) ==
    IF key = << "c", "o", "n", "s", "t", "r", "u", "c", "t", "o", "r" >>
    THEN [type |-> "function", num |-> 0]
    ELSE IF key = << "_", "_", "p", "r", "o", "t", "o", "_", "_" >>
    THEN [type |-> "object", num |-> 0]
    ELSE Undefined

\* temps[key] on the object literal { "san francisco": 18, tokyo: 22, london: 12 }:
\* its own properties first, then the prototype chain.
TempsGet(key) ==
    IF key = SanFrancisco THEN Number(18)
    ELSE IF key = Tokyo THEN Number(22)
    ELSE IF key = London THEN Number(12)
    ELSE Inherited(key)

\* x ?? 20
OrDefault(x) == IF x.type = "undefined" THEN Number(20) ELSE x

\* Math.round(temp * 1.8 + 32), in tenths; a non-number gives NaN.  For an
\* integer temp the tenths are even, so no tie and no floating-point
\* rounding error can change the result.
ToFahrenheit(x) ==
    IF x.type = "number" THEN Number((x.num * 18 + 320 + 5) \div 10) ELSE NaN

\* getWeather.execute({ location, unit }): the parts of the reply
\* `${location}: ${displayTemp}${displayUnit}, partly cloudy`.
getWeather(location, unit) ==
    LET temp == OrDefault(TempsGet(ToLowerCase(location)))
    IN [location |-> location,
        temp |-> IF unit = "fahrenheit" THEN ToFahrenheit(temp) ELSE temp,
        unit |-> IF unit = "fahrenheit" THEN "F" ELSE "C"]

StepLimit == 5

\* Variation: no stop condition on the step count.
NeverStops(n) == FALSE

\* stopWhen: stepCountIs(5)
StopWhen(n) == n = StepLimit

MaxCalls == 1

ToolInputs == [location : Locations, unit : Units]

\* The tool calls one model step may request.
CallLists == UNION {[1..n -> ToolInputs] : n \in 1..MaxCalls}

\* testToolCalling: "4. Tool Calling (@ai-sdk/openai)" / "5. Tool Calling (GPT-5.2)"
ToolTest(v) == Tests(v)[IF v = "index" THEN 4 ELSE 5]

\* testToolCalling has been invoked by runTest and has called generateText:
\* the request of the first model step is pending.
InitTool ==
    /\ variant \in Variants
    /\ endpoint \in EndpointValues \ {""}
    /\ apiKey \in ApiKeyValues \ {""}
    /\ modelAlt \in ModelAltValues
    /\ clients = ClientsOf(variant)
    /\ pc = "await"
    /\ i = 1
    /\ results = << >>
    /\ tests = << ToolTest(variant) >>
    /\ invoked = tests
    /\ inFlight = 1
    /\ rt = "pending"
    /\ ret = FALSE
    /\ thrown = NoErr
    /\ remote = tests
    /\ stdout = divider(ToolTest(variant))
    /\ stderr = << >>
    /\ exitCode = 0
    /\ exitCalled = FALSE
    /\ settled = << >>
    /\ delivered = << >>
    /\ response = NoResponse
    /\ files = << >>
    /\ toolPc = "model"
    /\ steps = 0
    /\ calls = << >>
    /\ replies = << >>

\* The pending model call settles: it raises, it answers with the final
\* text, or it requests tool calls.
ModelStep ==
    /\ toolPc = "model"
    /\ \/ /\ toolPc' = "failed"
          /\ UNCHANGED <<steps, calls, replies>>
       \/ /\ toolPc' = "done"
          /\ steps' = steps + 1
          /\ calls' = << >>
          /\ replies' = << >>
       \/ \E cs \in CallLists :
            /\ toolPc' = "tools"
            /\ steps' = steps + 1
            /\ calls' = cs
            /\ replies' = << >>
    /\ UNCHANGED runVars

\* The tool calls of the step are executed.
ExecuteTools ==
    /\ toolPc = "tools"
    /\ replies' = [k \in 1..Len(calls) |-> getWeather(calls[k].location, calls[k].unit)]
    /\ toolPc' = "executed"
    /\ UNCHANGED <<steps, calls>>
    /\ UNCHANGED runVars

\* The step with its calls and results joins result.steps, and the stop
\* condition decides whether another model call is made.
StepEnd ==
    /\ toolPc = "executed"
    /\ calls' = << >>
    /\ replies' = << >>
    /\ toolPc' = IF StopWhen(steps) THEN "done" ELSE "model"
    /\ UNCHANGED steps
    /\ UNCHANGED runVars

NextTool ==
    \/ ModelStep
    \/ ExecuteTools
    \/ StepEnd

ToolSpec == InitTool /\ [][NextTool]_vars

\* Every pending model call settles and the local tool execution runs.
ToolFairSpec == ToolSpec /\ WF_vars(NextTool)

----------------------------------------------------------------------------
(* Properties of runTest, the actions and the loop                         *)

Count(seq, P(_)) == Cardinality({k \in 1..Len(seq) : P(seq[k])})

IsNoErr(e) == e = NoErr
IsRaise(e) == e # NoErr
IsBoom(l) == l.text = "boom"

\* The step is the settlement of the pending action.
Settles == Len(settled') = Len(settled) + 1

\* The lines a step appends to the error stream.
NewErr == SubSeq(stderr', Len(stderr) + 1, Len(stderr'))

\* C11: Concrete scenario.  With tests A, whose action resolves, and B, whose
\* action rejects with an Error of message "boom" and no cause, the run ends
\* with results [{A, true}, {B, false}], the tally 1/2 and exactly one line
\* of the error stream carrying "boom".
C11_Scenario ==
    (/\ tests = << "A", "B" >>
     /\ settled = << NoErr, ErrorValue("boom", FALSE) >>
     /\ pc = "done") =>
        /\ results = << [name |-> "A", passed |-> TRUE], [name |-> "B", passed |-> FALSE] >>
        /\ \E k \in Lines(stdout, "tally") : stdout[k].p = 1 /\ stdout[k].t = 2
        /\ Count(stderr, IsBoom) = 1

\* C11 witness: the scenario has run to its end.
C11_Witness ==
    /\ tests = << "A", "B" >>
    /\ settled = << NoErr, ErrorValue("boom", FALSE) >>
    /\ pc = "done"
    /\ ConfigPresent

\* C13: runTest prints the header with the name before it invokes the
\* action, invokes it once, and returns true exactly when the action
\* completed without raising; PASSED is printed once per completed action and
\* the FAILED lines once per raising action.
C13_RunTestContract ==
    /\ invoked = SubSeq(tests, 1, i)
    /\ Len(settled) + inFlight = Len(invoked)
    /\ Cardinality({k \in Lines(stdout, "title") :
                      stdout[k].name \notin {"Summary", "Test Summary"}}) = Len(invoked)
    /\ \A k \in Lines(stdout, "skipped") \cup Lines(stdout, "stream-label")
                \cup Lines(stdout, "chunk") \cup Lines(stdout, "PASSED") :
         \E h \in 1..(k - 1) : stdout[h] = Line("title", stdout[k].name, "")
    /\ \A k \in 1..Len(results) : results[k].passed = (settled[k] = NoErr)
    /\ rt = "resolved" => ret = (settled[Len(settled)] = NoErr)
    /\ Cardinality(Lines(stdout, "PASSED")) = Count(settled, IsNoErr)
    /\ Cardinality(Lines(stderr, "FAILED")) = Count(settled, IsRaise)
    /\ \A k \in Lines(stdout, "PASSED") :
         \E j \in 1..Len(settled) : tests[j] = stdout[k].name /\ settled[j] = NoErr
    /\ \A k \in Lines(stderr, "FAILED") \cup Lines(stderr, "message") :
         \E j \in 1..Len(settled) : tests[j] = stderr[k].name /\ settled[j] # NoErr

\* C13 witness: runTest has returned false for one action and true for another.
C13_Witness ==
    /\ Len(results) = 2
    /\ ~results[1].passed
    /\ results[2].passed
    /\ rt = "resolved"

\* C14: No timeout or cancellation.  While an action is pending, every step
\* that is not its settlement leaves the loop where it is: no further action
\* is invoked, no result is recorded and no summary is printed; and a pending
\* action leaves the in-flight count only by settling.
C14_NoTimeout ==
    [][(pc = "await") =>
          \/ Settles
          \/ /\ pc' = "await"
             /\ invoked' = invoked
             /\ results' = results
             /\ inFlight' = inFlight
             /\ Lines(stdout', "tally") = Lines(stdout, "tally")]_vars

\* C14 witness: an action is pending after an earlier test was recorded and
\* part of its stream was delivered.
C14_Witness == pc = "await" /\ Len(results) >= 1 /\ Len(delivered) >= 1

\* C15: when a run with the required configuration present has ended and
\* every action settled by resolving or by rejecting with an Error, the
\* summary has been printed and there is one result per registered test.
C15_RunCompletes ==
    (/\ ConfigPresent
     /\ pc = "done"
     /\ \A k \in 1..Len(settled) : settled[k].kind \in {"none", "Error"}) =>
        /\ Lines(stdout, "tally") # {}
        /\ Len(results) = Len(Tests(variant))

\* C16: the configuration and the clients are fixed before main starts.
\* From the call of main on the clients are the ones constructed at module
\* level, and no step after the construction changes the endpoint, the
\* credential, the model identifiers or the clients.
C16_ConfigReadOnly ==
    /\ [](pc \notin {"preflight", "construct", "exited"} => clients = ClientsOf(variant))
    /\ [][/\ endpoint' = endpoint
          /\ apiKey' = apiKey
          /\ modelAlt' = modelAlt
          /\ variant' = variant
          /\ (clients' # clients => pc = "construct")]_vars

\* C16 witness: a full run has ended after tests passed and failed, with the
\* clients in place.
C16_Witness ==
    /\ pc = "done"
    /\ thrown = NoErr
    /\ Len(results) = Len(tests)
    /\ clients = ClientsOf(variant)
    /\ \E j, k \in 1..Len(settled) : settled[j] = NoErr /\ settled[k] # NoErr

\* C17: the image test writes flux_output.png exactly when the response has a
\* data list whose first entry carries a non-empty payload, and then it
\* passes; otherwise (data missing or empty, no payload, request raised)
\* nothing is written and the test is recorded as failed.  No other step
\* writes a file.
C17_ImageWrite ==
    [][LET image == /\ response'.hasData
                    /\ Len(response'.data) > 0
                    /\ response'.data[1] # ""
       IN IF Settles /\ variant = "flux" /\ tests[i] = FluxTest
          THEN /\ image => /\ files' = Append(files, "flux_output.png")
                           /\ pc' = "push"
                           /\ ret' = TRUE
               /\ ~image => /\ files' = files
                            /\ settled'[Len(settled')] # NoErr
                            /\ pc' = "push"
                            /\ ret' = FALSE
          ELSE files' = files]_vars

\* C17 witness: the image test has written the file and been recorded as passed.
C17_Witness ==
    /\ files # << >>
    /\ \E k \in 1..Len(results) : results[k].name = FluxTest /\ results[k].passed

\* C18: when the body of the image test fails with an Error of message m,
\* m is written to the error stream twice during the test, once by the
\* test's own catch block and once by runTest; the failure of any other
\* test is written once, by runTest.
C18_FluxLoggedTwice ==
    [][(Settles /\ settled'[Len(settled')].kind = "Error") =>
          LET m == settled'[Len(settled')].message
              own == {k \in 1..Len(NewErr) :
                        NewErr[k].tag = "flux-failed" /\ NewErr[k].text = m}
              harness == {k \in 1..Len(NewErr) :
                            NewErr[k].tag = "message" /\ NewErr[k].text = m}
              all == {k \in 1..Len(NewErr) : NewErr[k].text = m}
          IN /\ Cardinality(harness) = 1
             /\ all = own \cup harness
             /\ Cardinality(own) = IF variant = "flux" /\ tests[i] = FluxTest THEN 1 ELSE 0
             /\ \A a \in own : \A b \in harness : a < b]_vars

\* C18 witness: the image test has failed on a rejected request, after a
\* plain test failed.
C18_Witness ==
    /\ Len(settled) = 2
    /\ tests = << "A", FluxTest >>
    /\ settled = << ErrorValue("boom", FALSE), ErrorValue("boom", FALSE) >>
    /\ variant = "flux"

\* The index of the latest stream label on stdout (0 if none).
LastLabel ==
    LET ls == Lines(stdout, "stream-label")
    IN IF ls = {} THEN 0 ELSE CHOOSE k \in ls : \A m \in ls : m <= k

C12_ToolLoopBounded ==
    /\ [](steps <= 5 /\ (toolPc = "model" => steps < 5))
    /\ <>(toolPc \in {"done", "failed"})

\* C12 witness: a tool call has been executed in the fifth step, after
\* tool calls in each of the steps before it.
C12_Witness == toolPc = "executed" /\ steps = 5 /\ Len(replies) >= 1

\* The temperature the claim gives for a lower-cased location.
ClaimedCelsius(key) ==
    IF key = SanFrancisco THEN 18
    ELSE IF key = Tokyo THEN 22
    ELSE IF key = London THEN 12
    ELSE 20

ClaimedFahrenheit(key) ==
    IF key = SanFrancisco THEN 64
    ELSE IF key = Tokyo THEN 72
    ELSE IF key = London THEN 54
    ELSE 68

\* C19: getWeather replies for every location and unit with the location as
\* given, the temperature of the lower-cased location (20 for any location
\* outside the table), converted to 64, 72, 54 or 68 with the suffix F for
\* "fahrenheit" and left unchanged with the suffix C otherwise.
C19_GetWeather ==
    toolPc = "executed" =>
      \A k \in 1..Len(replies) :
        LET key == ToLowerCase(calls[k].location)
            f == calls[k].unit = "fahrenheit"
        IN /\ replies[k].location = calls[k].location
           /\ replies[k].unit = (IF f THEN "F" ELSE "C")
           /\ replies[k].temp.type = "number"
           /\ replies[k].temp.num = (IF f THEN ClaimedFahrenheit(key) ELSE ClaimedCelsius(key))

====
